---- MODULE Spec2Model ----
(***************************************************************************)
(* Model of the pactum mock server (src/src/models/server.js) and of the   *)
(* Spec orchestrator (src/unnamed/part_000).                               *)
(*                                                                         *)
(* JavaScript runs one synchronous block at a time.  A block is modelled   *)
(* either as one action or, for toss(), as a short run of steps taken      *)
(* while the variable busy names the invocation that owns the thread, so   *)
(* that nothing else interleaves with it.                                  *)
(***************************************************************************)
EXTENDS Integers, Sequences, FiniteSets, TLC

(* ---------------------------------------------------------------------- *)
(* Bounds                                                                  *)
(* ---------------------------------------------------------------------- *)

\* number of close callbacks that may be pending on one port
MaxCloseCallbacks == 2

(* ---------------------------------------------------------------------- *)
(* Values                                                                  *)
(* ---------------------------------------------------------------------- *)

\* an optional value: <<>> is JavaScript's undefined, <<x>> is the value x
None == <<>>

Some(x) == <<x>>

Ports == {9393, 9494}

\* interactions added to the server directly (pactum.mock.addInteraction)
MockIds == {"m1", "m2", "m3", "m4"}

\* the invocations (Spec objects) and the interactions each one holds,
\* in the insertion order of its this.interactions map
SpecIds == {"s1", "s2"}

SpecInteractions ==
  [s \in SpecIds |-> IF s = "s1" THEN <<"a1">> ELSE <<"b1", "b2">>]

RECURSIVE Range(_)
Range(seq) == IF seq = <<>> THEN {} ELSE {Head(seq)} \cup Range(Tail(seq))

InteractionIds == MockIds \cup UNION {Range(SpecInteractions[s]) : s \in SpecIds}

\* status and body of the not-found response
NotFoundStatus == 404

NotFoundBody == "Interaction Not Found"

\* the interaction objects: port, withRequest (the predicate) and
\* willRespondWith (the canned response)
Interactions ==
  [id \in InteractionIds |->
    CASE id = "m1" ->
           [port |-> 9393,
            withRequest |-> [method |-> "GET", path |-> "/a", query |-> None,
                             headers |-> None, body |-> None],
            willRespondWith |-> [status |-> 200, headers |-> None,
                                 body |-> Some("m1")]]
      [] id = "m2" ->
           [port |-> 9393,
            withRequest |-> [method |-> "GET", path |-> "/a",
                             query |-> Some({<<"k", "1">>}),
                             headers |-> None, body |-> None],
            willRespondWith |-> [status |-> 200,
                                 headers |-> Some({<<"x-mock", "m2">>}),
                                 body |-> Some("m2")]]
      [] id \in {"m3", "a1"} ->
           [port |-> 9393,
            withRequest |-> [method |-> "GET", path |-> "/a", query |-> None,
                             headers |-> Some({<<"h", "1">>}), body |-> None],
            willRespondWith |-> [status |-> 200, headers |-> None,
                                 body |-> Some(id)]]
      [] id = "b1" ->
           [port |-> 9393,
            withRequest |-> [method |-> "GET", path |-> "/a", query |-> None,
                             headers |-> None, body |-> None],
            willRespondWith |-> [status |-> 201, headers |-> None,
                                 body |-> None]]
      [] OTHER ->
           [port |-> 9494,
            withRequest |-> [method |-> "POST", path |-> "/b", query |-> None,
                             headers |-> None, body |-> Some("x")],
            willRespondWith |-> [status |-> 200, headers |-> None,
                                 body |-> Some(id)]]]

\* inbound requests as express presents them to the handler: req.query and
\* req.headers are objects (sets of key/value pairs), req.body is the parsed
\* body
ClientRequests ==
  { [method |-> "GET", path |-> "/a", query |-> {}, headers |-> {},
     body |-> "{}"],
    [method |-> "GET", path |-> "/a", query |-> {<<"k", "1">>, <<"z", "2">>},
     headers |-> {<<"h", "1">>}, body |-> "{}"],
    [method |-> "POST", path |-> "/b", query |-> {}, headers |-> {},
     body |-> "x"],
    [method |-> "POST", path |-> "/b", query |-> {}, headers |-> {},
     body |-> "y"],
    [method |-> "POST", path |-> "/a", query |-> {<<"k", "1">>},
     headers |-> {<<"h", "1">>}, body |-> "{}"] }

(* ---------------------------------------------------------------------- *)
(* State                                                                   *)
(* ---------------------------------------------------------------------- *)

VARIABLES
  mockMap,     \* Server.mockMap: port -> None or Some([server, running, interactions])
  binding,     \* per port: a new server has bound it and its listen callback is queued
  orphans,     \* per port: close callbacks queued on servers the map no longer holds
  exercised,   \* the exercised field of every interaction object
  crashed,     \* an 'error' event nobody listens for ended the process
  lastCall,    \* the last call of start or stop that was issued, with its port
  lastReq,     \* the last request a client other than a toss() sent, with its port
  lastRes,     \* the response its client observed
  pc,          \* where each invocation's toss() stands
  flight,      \* each invocation's outbound call: not issued, on its way, settled
  response,    \* each invocation's this._response
  outcome,     \* how each invocation's toss() ended
  store,       \* the interactions handed to the history store
  busy         \* the invocation whose synchronous block is running, or None

vars == <<mockMap, binding, orphans, exercised, crashed, lastCall, lastReq, lastRes,
          pc, flight, response, outcome, store, busy>>

serverVars == <<mockMap, binding, orphans, crashed, lastCall>>

tossVars == <<pc, flight, response, outcome, store, busy>>

(* ---------------------------------------------------------------------- *)
(* Matching (the predicate of the dispatch handler)                        *)
(* ---------------------------------------------------------------------- *)

\* helper.validateQuery: every declared key is in the request with an equal
\* value; further request keys are not looked at
validateQuery(actual, expected) == expected \subseteq actual

\* helper.validateHeaders: the same subset match on headers
validateHeaders(actual, expected) == expected \subseteq actual

\* helper.validateBody: deep equality of the request body and the declared one
validateBody(actual, expected) == actual = expected

isValidMethod(w, req) == w.method = req.method

isValidPath(w, req) == w.path = req.path

isValidQuery(w, req) ==
  IF w.query # None THEN validateQuery(req.query, w.query[1]) ELSE TRUE

isValidHeaders(w, req) ==
  IF w.headers # None THEN validateHeaders(req.headers, w.headers[1]) ELSE TRUE

isValidBody(w, req) ==
  IF w.body # None THEN validateBody(req.body, w.body[1]) ELSE TRUE

\* the condition of the if on line 39
Matches(w, req) ==
  /\ isValidMethod(w, req)
  /\ isValidPath(w, req)
  /\ isValidQuery(w, req)
  /\ isValidHeaders(w, req)
  /\ isValidBody(w, req)

(* ---------------------------------------------------------------------- *)
(* The express response object, as the handler uses it                     *)
(* ---------------------------------------------------------------------- *)

\* a fresh res: nothing sent, status 200.  wire is what went to the client,
\* threw says that a call on res raised ERR_HTTP_HEADERS_SENT
NewRes ==
  [headersSent |-> FALSE, statusCode |-> 200, headers |-> {}, wire |-> None,
   threw |-> FALSE]

HeaderKeys(h) == {kv[1] : kv \in h}

\* res.set(obj): sets every field of obj with setHeader, which throws once the
\* headers are sent; with undefined or an empty object it sets nothing
ResSet(res, headers) ==
  IF headers = None \/ headers[1] = {} THEN res
  ELSE IF res.headersSent THEN [res EXCEPT !.threw = TRUE]
  ELSE [res EXCEPT !.headers =
          {kv \in res.headers : kv[1] \notin HeaderKeys(headers[1])}
            \cup headers[1]]

\* res.status(code): assigns res.statusCode, also after the response is sent
ResStatus(res, code) == [res EXCEPT !.statusCode = code]

\* res.send(body): the first call writes status, headers and body and ends the
\* response.  A later call with a body sets Content-Type/Content-Length with
\* setHeader, which throws; a later call with undefined only ends again
ResSend(res, body) ==
  IF res.headersSent
    THEN IF body = None THEN res ELSE [res EXCEPT !.threw = TRUE]
    ELSE [res EXCEPT !.headersSent = TRUE,
                     !.wire = Some([status |-> res.statusCode,
                                    headers |-> res.headers,
                                    body |-> body])]

\* lines 42-44: the three calls in order; an exception ends the handler
Respond(res, w) ==
  LET r1 == ResSet(res, w.headers)
      r2 == IF r1.threw THEN r1 ELSE ResStatus(r1, w.status)
  IN  IF r2.threw THEN r2 ELSE ResSend(r2, w.body)

\* lines 24-46: the loop over the registry in insertion order.  st holds
\* interactionExercised, the interactions marked so far and res
RECURSIVE Scan(_, _, _, _)
Scan(ints, req, k, st) ==
  IF k > Len(ints) \/ st.res.threw THEN st
  ELSE LET I == Interactions[ints[k]]
       IN  IF Matches(I.withRequest, req)
             THEN Scan(ints, req, k + 1,
                       [interactionExercised |-> TRUE,
                        marked |-> st.marked \cup {ints[k]},
                        res |-> Respond(st.res, I.willRespondWith)])
             ELSE Scan(ints, req, k + 1, st)

\* NotFound with line 48 left out: the body goes out with the status res has
NotFoundWithoutStatus(st) ==
  IF ~st.interactionExercised
    THEN [st EXCEPT !.res = ResSend(st.res, Some(NotFoundBody))]
    ELSE st

\* lines 47-50: the not-found response, reached when the loop ended normally
NotFound(st) ==
  IF ~st.interactionExercised
    THEN [st EXCEPT !.res = ResSend(ResStatus(st.res, NotFoundStatus),
                                    Some(NotFoundBody))]
    ELSE st

\* lines 20-51: the handler of app.all('/*')
Handle(ints, req) ==
  LET st == Scan(ints, req, 1,
                 [interactionExercised |-> FALSE, marked |-> {}, res |-> NewRes])
  IN  IF st.res.threw THEN st ELSE NotFound(st)

(* ---------------------------------------------------------------------- *)
(* Server: state helpers                                                   *)
(* ---------------------------------------------------------------------- *)

\* this.mockMap.has(port)
Has(p) == mockMap[p] # None

\* this.mockMap.get(port)
Entry(p) == mockMap[p][1]

\* the interactions map of a port, in insertion order (empty without entry)
Registry(p) == IF Has(p) THEN Entry(p).interactions ELSE <<>>

\* the server of the port's entry accepts connections
Listening(p) == Has(p) /\ Entry(p).server.listening

\* a server holds its port from the bind in listen() until close()
Bound(p) == binding[p] \/ Listening(p)

\* the number of servers that accept connections on p
Listeners(p) == IF Listening(p) THEN 1 ELSE 0

\* close callbacks not yet run, of the entry's server and of replaced ones
PendingClose(p) == orphans[p] + (IF Has(p) THEN Entry(p).server.closeCbs ELSE 0)

\* a 'listening' event is queued with process.nextTick: it runs before any
\* I/O event, so I/O events wait while one is queued
TickPending == \E p \in Ports : binding[p]

\* synchronous code of the test may run: the process lives and no block of
\* a toss() is running
CanCall == ~crashed /\ busy = None

\* an I/O event may be delivered
CanDeliver == CanCall /\ ~TickPending

\* Map.set(key, value) on an insertion-ordered map of keys
MapSet(seq, id) == IF id \in Range(seq) THEN seq ELSE Append(seq, id)

\* Map.delete(key)
MapDelete(seq, id) == SelectSeq(seq, LAMBDA x : x # id)

(* ---------------------------------------------------------------------- *)
(* Server: start and stop                                                  *)
(* ---------------------------------------------------------------------- *)

\* line 14: the test that makes start a no-op
AlreadyRunning(p) == Has(p) /\ Entry(p).running

\* StartNoop that resolves at once but stores a fresh entry for the port
StartNoopResets(p) ==
  /\ CanCall
  /\ AlreadyRunning(p)
  /\ mockMap' = [mockMap EXCEPT ![p] =
                   Some([Entry(p) EXCEPT !.interactions = <<>>])]
  /\ lastCall' = Some([op |-> "start", port |-> p])
  /\ UNCHANGED <<binding, orphans, exercised, crashed, lastReq, lastRes>>
  /\ UNCHANGED tossVars

\* lines 13-17: start on a running port resolves at once
StartNoop(p) ==
  /\ CanCall
  /\ AlreadyRunning(p)
  /\ lastCall' = Some([op |-> "start", port |-> p])
  /\ UNCHANGED <<mockMap, binding, orphans, exercised, crashed, lastReq, lastRes>>
  /\ UNCHANGED tossVars

\* lines 18-52: otherwise a new app and app.listen(port, callback).  listen
\* binds the port at once; the callback runs on the 'listening' event
StartListen(p) ==
  /\ CanCall
  /\ ~AlreadyRunning(p)
  /\ ~Bound(p)
  /\ binding' = [binding EXCEPT ![p] = TRUE]
  /\ lastCall' = Some([op |-> "start", port |-> p])
  /\ UNCHANGED <<mockMap, orphans, exercised, crashed, lastReq, lastRes>>
  /\ UNCHANGED tossVars

\* line 52 when the port cannot be bound: the server emits 'error', which has
\* no listener; the promise is never settled and the process ends
StartBindError(p) ==
  /\ CanCall
  /\ ~AlreadyRunning(p)
  /\ Bound(p)
  /\ crashed' = TRUE
  /\ lastCall' = Some([op |-> "start", port |-> p])
  /\ UNCHANGED <<mockMap, binding, orphans, exercised, lastReq, lastRes>>
  /\ UNCHANGED tossVars

\* lines 55-60: the object the listen callback stores; server is the state of
\* the http server it holds
NewMock ==
  [server |-> [listening |-> TRUE, closeCbs |-> 0], running |-> TRUE,
   interactions |-> <<>>]

\* lines 52-62: the listen callback.  The entry it replaces may hold a closed
\* server whose close callbacks are still to run
ListenCallback(p) ==
  /\ CanCall
  /\ binding[p]
  /\ binding' = [binding EXCEPT ![p] = FALSE]
  /\ orphans' = [orphans EXCEPT ![p] = PendingClose(p)]
  /\ mockMap' = [mockMap EXCEPT ![p] = Some(NewMock)]
  /\ UNCHANGED <<exercised, crashed, lastCall, lastReq, lastRes>>
  /\ UNCHANGED tossVars

\* StopNoop that forgets the port it finds stopped
StopNoopDeletes(p) ==
  /\ CanCall
  /\ ~AlreadyRunning(p)
  /\ mockMap' = [mockMap EXCEPT ![p] = None]
  /\ lastCall' = Some([op |-> "stop", port |-> p])
  /\ UNCHANGED <<binding, orphans, exercised, crashed, lastReq, lastRes>>
  /\ UNCHANGED tossVars

\* lines 81-84 and 77-80: stop on an unknown or a stopped port
StopNoop(p) ==
  /\ CanCall
  /\ ~AlreadyRunning(p)
  /\ lastCall' = Some([op |-> "stop", port |-> p])
  /\ UNCHANGED <<mockMap, binding, orphans, exercised, crashed, lastReq, lastRes>>
  /\ UNCHANGED tossVars

\* Close that queues the callback and leaves the server listening
CloseKeepsListening(mock) ==
  [mock EXCEPT !.server.closeCbs = @ + 1]

\* lines 71-72: app.server.close(callback) on the entry's server
Close(mock) ==
  [mock EXCEPT !.server = [listening |-> FALSE, closeCbs |-> @.closeCbs + 1]]

\* lines 71-76: the listener is closed at once, running stays true until the
\* callback runs
StopClose(p) ==
  /\ CanCall
  /\ AlreadyRunning(p)
  /\ PendingClose(p) < MaxCloseCallbacks
  /\ mockMap' = [mockMap EXCEPT ![p] = Some(Close(Entry(p)))]
  /\ lastCall' = Some([op |-> "stop", port |-> p])
  /\ UNCHANGED <<binding, orphans, exercised, crashed, lastReq, lastRes>>
  /\ UNCHANGED tossVars

\* Closed that also clears the interactions of the stopped port
ClosedClearsRegistry(mock) ==
  [mock EXCEPT !.running = FALSE, !.server.closeCbs = @ - 1,
               !.interactions = <<>>]

\* lines 73-75: the callback of close, on the object stop() read from the map
Closed(mock) ==
  [mock EXCEPT !.running = FALSE, !.server.closeCbs = @ - 1]

\* lines 72-76: a close callback of the server the port's entry holds
CloseCallback(p) ==
  /\ CanDeliver
  /\ Has(p)
  /\ Entry(p).server.closeCbs > 0
  /\ mockMap' = [mockMap EXCEPT ![p] = Some(Closed(Entry(p)))]
  /\ UNCHANGED <<binding, orphans, exercised, crashed, lastCall, lastReq, lastRes>>
  /\ UNCHANGED tossVars

\* lines 72-76: a close callback of a server whose entry start() has replaced:
\* it sets running on an object the map no longer holds
OrphanCloseCallback(p) ==
  /\ CanDeliver
  /\ orphans[p] > 0
  /\ orphans' = [orphans EXCEPT ![p] = @ - 1]
  /\ UNCHANGED <<mockMap, binding, exercised, crashed, lastCall, lastReq, lastRes>>
  /\ UNCHANGED tossVars

(* ---------------------------------------------------------------------- *)
(* Server: the interactions of a port                                      *)
(* ---------------------------------------------------------------------- *)

\* addInteraction that inserts into the registry of every port the map holds
addInteractionEveryPort(map, id) ==
  [p \in Ports |->
     IF map[p] # None
       THEN Some([map[p][1] EXCEPT !.interactions = MapSet(@, id)])
       ELSE map[p]]

\* lines 88-94: Server.addInteraction(id, interaction) as a map update
addInteraction(map, id) ==
  LET port == Interactions[id].port
  IN  IF map[port] # None
        THEN [map EXCEPT ![port] =
                Some([map[port][1] EXCEPT !.interactions = MapSet(@, id)])]
        ELSE map

\* removeInteraction that empties the registry of the port
removeInteractionClearsPort(map, port, id) ==
  IF map[port] # None
    THEN [map EXCEPT ![port] = Some([map[port][1] EXCEPT !.interactions = <<>>])]
    ELSE map

\* removeInteraction that looks the port up under the id and so deletes nothing
removeInteractionWrongKey(map, port, id) == map

\* lines 96-101: Server.removeInteraction(port, id) as a map update
removeInteraction(map, port, id) ==
  IF map[port] # None
    THEN [map EXCEPT ![port] =
            Some([map[port][1] EXCEPT !.interactions = MapDelete(@, id)])]
    ELSE map

\* lines 103-108: Server.removeInteractions(port) as a map update
removeInteractions(map, port) ==
  IF map[port] # None
    THEN [map EXCEPT ![port] = Some([map[port][1] EXCEPT !.interactions = <<>>])]
    ELSE map

\* removeAllInteractions that passes over the ports that are stopped
removeAllInteractionsRunning(map) ==
  [p \in Ports |->
     IF map[p] # None /\ map[p][1].running
       THEN Some([map[p][1] EXCEPT !.interactions = <<>>])
       ELSE map[p]]

\* lines 110-115: Server.removeAllInteractions() as a map update
removeAllInteractions(map) ==
  [p \in Ports |->
     IF map[p] # None THEN Some([map[p][1] EXCEPT !.interactions = <<>>])
     ELSE map[p]]

\* the test adds one of its mock interactions
AddInteraction(id) ==
  /\ CanCall
  /\ id \in MockIds
  /\ mockMap' = addInteraction(mockMap, id)
  /\ UNCHANGED <<binding, orphans, exercised, crashed, lastCall, lastReq, lastRes>>
  /\ UNCHANGED tossVars

RemoveInteraction(p, id) ==
  /\ CanCall
  /\ id \in MockIds
  /\ mockMap' = removeInteraction(mockMap, p, id)
  /\ UNCHANGED <<binding, orphans, exercised, crashed, lastCall, lastReq, lastRes>>
  /\ UNCHANGED tossVars

RemoveInteractions(p) ==
  /\ CanCall
  /\ mockMap' = removeInteractions(mockMap, p)
  /\ UNCHANGED <<binding, orphans, exercised, crashed, lastCall, lastReq, lastRes>>
  /\ UNCHANGED tossVars

RemoveAllInteractions ==
  /\ CanCall
  /\ mockMap' = removeAllInteractions(mockMap)
  /\ UNCHANGED <<binding, orphans, exercised, crashed, lastCall, lastReq, lastRes>>
  /\ UNCHANGED tossVars

(* ---------------------------------------------------------------------- *)
(* Server: request dispatch                                                *)
(* ---------------------------------------------------------------------- *)

\* Mark that writes the flag of every interaction: true for the ones the
\* request matched, false for the others
MarkOnly(ex, marked) == [id \in InteractionIds |-> id \in marked]

\* line 41 over the whole loop: the objects marked by one run of the handler
Mark(ex, marked) == [id \in InteractionIds |-> ex[id] \/ id \in marked]

\* a client that is sent nothing
NoResponse == [status |-> 0, headers |-> {}, body |-> None]

\* what the client of a handled request receives: what the first res.send
\* wrote.  When a later call on res throws, express hands the error to its
\* final handler, which finds the headers sent and closes the socket behind
\* the response already written
Observed(st) == IF st.res.wire = None THEN NoResponse ELSE st.res.wire[1]

\* a client other than a toss() sends r to port p and the handler runs.
\* line 21: the registry is the one the map holds for the port now
Request(p, r) ==
  /\ CanDeliver
  /\ Listening(p)
  /\ LET st == Handle(Registry(p), r)
     IN  /\ exercised' = Mark(exercised, st.marked)
         /\ lastReq' = Some([port |-> p, req |-> r])
         /\ lastRes' = Some(Observed(st))
  /\ UNCHANGED serverVars
  /\ UNCHANGED tossVars

(* ---------------------------------------------------------------------- *)
(* Spec: the invocations                                                   *)
(* ---------------------------------------------------------------------- *)

\* this._request of each invocation, as its builder calls left it
SpecRequest ==
  [s \in SpecIds |->
     IF s = "s1"
       THEN [method |-> "GET", port |-> 9393, path |-> "/a",
             qs |-> {<<"k", "1">>, <<"z", "2">>}, headers |-> {<<"h", "1">>}]
       ELSE [method |-> "PUT", port |-> 9393, path |-> "/a",
             qs |-> {}, headers |-> {}]]

\* this._expect.statusCode of each invocation (None: expectStatus not called)
SpecExpectStatus == [s \in SpecIds |-> IF s = "s1" THEN Some(200) ELSE None]

\* lines 18-28: the verb fetch() issues
FetchMethod(method) ==
  CASE method = "GET" -> "GET"
    [] method = "POST" -> "POST"
    [] OTHER -> "GET"

\* the request on the wire, as the mock server's handler sees it
FetchRequest(s) ==
  [method |-> FetchMethod(SpecRequest[s].method), path |-> SpecRequest[s].path,
   query |-> SpecRequest[s].qs, headers |-> SpecRequest[s].headers,
   body |-> "{}"]

\* this._response = {} of the constructor
EmptyResponse == [error |-> FALSE, statusCode |-> None, body |-> None, json |-> None]

\* request-promise resolves with the full response on a 2xx status, rejects
\* with a StatusCodeError on any other status and with a RequestError when
\* the call fails; lines 265-269 store either one in this._response
Settled(f) ==
  IF f.state = "error"
    THEN [EmptyResponse EXCEPT !.error = TRUE]
    ELSE IF f.res[1].status \in 200..299
      THEN [EmptyResponse EXCEPT !.statusCode = Some(f.res[1].status),
                                 !.body = f.res[1].body]
      ELSE [EmptyResponse EXCEPT !.error = TRUE,
                                 !.statusCode = Some(f.res[1].status)]

\* helper.getJson: the parsed body, undefined when it does not parse
JsonTexts == {"{}"}

getJson(body) == IF body # None /\ body[1] \in JsonTexts THEN body ELSE None

\* Expect.validateInteractions passes: every interaction of the invocation
\* has exercised == true
validateInteractions(s) ==
  \A id \in Range(SpecInteractions[s]) : exercised[id]

\* Expect.validate passes: the declared status code equals the response's
validate(s) ==
  SpecExpectStatus[s] = None \/ SpecExpectStatus[s] = response[s].statusCode

RECURSIVE AddAll(_, _)
AddAll(map, ids) ==
  IF ids = <<>> THEN map ELSE AddAll(addInteraction(map, Head(ids)), Tail(ids))

RECURSIVE RemoveAll(_, _)
RemoveAll(map, ids) ==
  IF ids = <<>> THEN map
  ELSE RemoveAll(removeInteraction(map, Interactions[Head(ids)].port, Head(ids)),
                 Tail(ids))

(* ---------------------------------------------------------------------- *)
(* Spec: toss()                                                            *)
(* ---------------------------------------------------------------------- *)

\* TossRegister that sets exercised on what it registers
TossRegisterMarks(s) ==
  /\ CanCall
  /\ pc[s] = "BUILT"
  /\ mockMap' = AddAll(mockMap, SpecInteractions[s])
  /\ exercised' = Mark(exercised, Range(SpecInteractions[s]))
  /\ pc' = [pc EXCEPT ![s] = "REGISTERED"]
  /\ busy' = Some(s)
  /\ UNCHANGED <<binding, orphans, crashed, lastCall, lastReq, lastRes,
                 flight, response, outcome, store>>

\* lines 262-264: every interaction of the invocation goes to the server
TossRegister(s) ==
  /\ CanCall
  /\ pc[s] = "BUILT"
  /\ mockMap' = AddAll(mockMap, SpecInteractions[s])
  /\ pc' = [pc EXCEPT ![s] = "REGISTERED"]
  /\ busy' = Some(s)
  /\ UNCHANGED <<binding, orphans, exercised, crashed, lastCall, lastReq, lastRes,
                 flight, response, outcome, store>>

\* TossFetch without the await: the interactions leave the server as soon as
\* the call is issued
TossFetchWithoutAwait(s) ==
  /\ busy = Some(s)
  /\ pc[s] = "REGISTERED"
  /\ flight' = [flight EXCEPT ![s] = [state |-> "request", res |-> None]]
  /\ mockMap' = RemoveAll(mockMap, SpecInteractions[s])
  /\ pc' = [pc EXCEPT ![s] = "AWAITING"]
  /\ busy' = None
  /\ UNCHANGED <<binding, orphans, exercised, crashed, lastCall, lastReq,
                 lastRes, response, outcome, store>>

\* line 266: fetch() issues the call and toss() waits for it
TossFetch(s) ==
  /\ busy = Some(s)
  /\ pc[s] = "REGISTERED"
  /\ flight' = [flight EXCEPT ![s] = [state |-> "request", res |-> None]]
  /\ pc' = [pc EXCEPT ![s] = "AWAITING"]
  /\ busy' = None
  /\ UNCHANGED <<mockMap, binding, orphans, exercised, crashed, lastCall, lastReq,
                 lastRes, response, outcome, store>>

\* the mock server on the call's port handles the call
ServerHandles(s) ==
  /\ CanDeliver
  /\ flight[s].state = "request"
  /\ Listening(SpecRequest[s].port)
  /\ LET st == Handle(Registry(SpecRequest[s].port), FetchRequest(s))
     IN  /\ exercised' = Mark(exercised, st.marked)
         /\ flight' = [flight EXCEPT ![s] =
                         [state |-> "response", res |-> Some(Observed(st))]]
  /\ UNCHANGED <<pc, response, outcome, store, busy, lastReq, lastRes>>
  /\ UNCHANGED serverVars

\* nothing listens on the call's port: the connection is refused
ConnectionFails(s) ==
  /\ CanDeliver
  /\ flight[s].state = "request"
  /\ ~Listening(SpecRequest[s].port)
  /\ flight' = [flight EXCEPT ![s] = [state |-> "error", res |-> None]]
  /\ UNCHANGED <<pc, response, outcome, store, busy>>
  /\ UNCHANGED <<exercised, lastReq, lastRes>>
  /\ UNCHANGED serverVars

\* TossSettle without the try/catch: a failed call rejects toss() at once
TossSettleWithoutCatch(s) ==
  /\ CanDeliver
  /\ pc[s] = "AWAITING"
  /\ flight[s].state \in {"response", "error"}
  /\ IF flight[s].state = "error"
       THEN /\ pc' = [pc EXCEPT ![s] = "VALIDATED"]
            /\ outcome' = [outcome EXCEPT ![s] = "RequestError"]
            /\ UNCHANGED <<response, busy>>
       ELSE /\ response' = [response EXCEPT ![s] = Settled(flight[s])]
            /\ pc' = [pc EXCEPT ![s] = "EXECUTED"]
            /\ busy' = Some(s)
            /\ UNCHANGED outcome
  /\ UNCHANGED <<flight, store>>
  /\ UNCHANGED <<exercised, lastReq, lastRes>>
  /\ UNCHANGED serverVars

\* lines 265-269: the await settles; response or error goes to this._response
TossSettle(s) ==
  /\ CanDeliver
  /\ pc[s] = "AWAITING"
  /\ flight[s].state \in {"response", "error"}
  /\ response' = [response EXCEPT ![s] = Settled(flight[s])]
  /\ pc' = [pc EXCEPT ![s] = "EXECUTED"]
  /\ busy' = Some(s)
  /\ UNCHANGED <<flight, outcome, store>>
  /\ UNCHANGED <<exercised, lastReq, lastRes>>
  /\ UNCHANGED serverVars

\* lines 270-274: every interaction goes to the store and leaves the server,
\* then the body is parsed
TossDeregister(s) ==
  /\ busy = Some(s)
  /\ pc[s] = "EXECUTED"
  /\ store' = store \cup Range(SpecInteractions[s])
  /\ mockMap' = RemoveAll(mockMap, SpecInteractions[s])
  /\ response' = [response EXCEPT ![s].json = getJson(response[s].body)]
  /\ pc' = [pc EXCEPT ![s] = "DEREGISTERED"]
  /\ UNCHANGED <<binding, orphans, exercised, crashed, lastCall, lastReq, lastRes,
                 flight, outcome, busy>>

\* TossValidateInteractions with lines 275 and 276 swapped: validate runs
\* whatever the interactions' exercised flags are
TossValidateInteractionsLate(s) ==
  /\ busy = Some(s)
  /\ pc[s] = "DEREGISTERED"
  /\ pc' = [pc EXCEPT ![s] = "CHECKED"]
  /\ UNCHANGED <<outcome, busy>>
  /\ UNCHANGED <<flight, response, store>>
  /\ UNCHANGED <<exercised, lastReq, lastRes>>
  /\ UNCHANGED serverVars

\* line 275: validateInteractions; when it throws, toss() rejects there
TossValidateInteractions(s) ==
  /\ busy = Some(s)
  /\ pc[s] = "DEREGISTERED"
  /\ IF validateInteractions(s)
       THEN /\ pc' = [pc EXCEPT ![s] = "CHECKED"]
            /\ UNCHANGED <<outcome, busy>>
       ELSE /\ pc' = [pc EXCEPT ![s] = "VALIDATED"]
            /\ outcome' = [outcome EXCEPT ![s] = "UnexercisedInteractionError"]
            /\ busy' = None
  /\ UNCHANGED <<flight, response, store>>
  /\ UNCHANGED <<exercised, lastReq, lastRes>>
  /\ UNCHANGED serverVars

\* line 276: validate(this._response); toss() resolves or rejects
TossValidate(s) ==
  /\ busy = Some(s)
  /\ pc[s] = "CHECKED"
  /\ outcome' = [outcome EXCEPT ![s] =
                   IF validate(s) THEN "resolved" ELSE "AssertionError"]
  /\ pc' = [pc EXCEPT ![s] = "VALIDATED"]
  /\ busy' = None
  /\ UNCHANGED <<flight, response, store>>
  /\ UNCHANGED <<exercised, lastReq, lastRes>>
  /\ UNCHANGED serverVars

(* ---------------------------------------------------------------------- *)
(* Specification                                                           *)
(* ---------------------------------------------------------------------- *)

Init ==
  /\ mockMap = [p \in Ports |-> None]
  /\ binding = [p \in Ports |-> FALSE]
  /\ orphans = [p \in Ports |-> 0]
  /\ exercised = [id \in InteractionIds |-> FALSE]
  /\ crashed = FALSE
  /\ lastCall = None
  /\ lastReq = None
  /\ lastRes = None
  /\ pc = [s \in SpecIds |-> "BUILT"]
  /\ flight = [s \in SpecIds |-> [state |-> "none", res |-> None]]
  /\ response = [s \in SpecIds |-> EmptyResponse]
  /\ outcome = [s \in SpecIds |-> "pending"]
  /\ store = {}
  /\ busy = None

\* every operation of the program
Next ==
  \/ \E p \in Ports : StartNoop(p)
  \/ \E p \in Ports : StartListen(p)
  \/ \E p \in Ports : StartBindError(p)
  \/ \E p \in Ports : ListenCallback(p)
  \/ \E p \in Ports : StopNoop(p)
  \/ \E p \in Ports : StopClose(p)
  \/ \E p \in Ports : CloseCallback(p)
  \/ \E p \in Ports : OrphanCloseCallback(p)
  \/ \E id \in MockIds : AddInteraction(id)
  \/ \E p \in Ports, id \in MockIds : RemoveInteraction(p, id)
  \/ \E p \in Ports : RemoveInteractions(p)
  \/ RemoveAllInteractions
  \/ \E p \in Ports, r \in ClientRequests : Request(p, r)
  \/ \E s \in SpecIds : TossRegister(s)
  \/ \E s \in SpecIds : TossFetch(s)
  \/ \E s \in SpecIds : ServerHandles(s)
  \/ \E s \in SpecIds : ConnectionFails(s)
  \/ \E s \in SpecIds : TossSettle(s)
  \/ \E s \in SpecIds : TossDeregister(s)
  \/ \E s \in SpecIds : TossValidateInteractions(s)
  \/ \E s \in SpecIds : TossValidate(s)

Spec == Init /\ [][Next]_vars

\* The claims are checked under three parts of Spec, each with the operations
\* its claims are about.

\* the server under every call of its interface, on every port
NextServer ==
  \/ \E p \in Ports : StartNoop(p)
  \/ \E p \in Ports : StartListen(p)
  \/ \E p \in Ports : StartBindError(p)
  \/ \E p \in Ports : ListenCallback(p)
  \/ \E p \in Ports : StopNoop(p)
  \/ \E p \in Ports : StopClose(p)
  \/ \E p \in Ports : CloseCallback(p)
  \/ \E p \in Ports : OrphanCloseCallback(p)
  \/ \E id \in MockIds : AddInteraction(id)
  \/ \E p \in Ports, id \in MockIds : RemoveInteraction(p, id)
  \/ \E p \in Ports : RemoveInteractions(p)
  \/ RemoveAllInteractions

SpecServer == Init /\ [][NextServer]_vars

\* the port whose dispatch SpecDispatch follows, and the mock interactions
\* bound to it
DispatchPort == 9393

DispatchIds == {id \in MockIds : Interactions[id].port = DispatchPort}

\* one port of the server with its registry and the requests of its clients
NextDispatch ==
  \/ StartNoop(DispatchPort)
  \/ StartListen(DispatchPort)
  \/ StartBindError(DispatchPort)
  \/ ListenCallback(DispatchPort)
  \/ StopNoop(DispatchPort)
  \/ StopClose(DispatchPort)
  \/ CloseCallback(DispatchPort)
  \/ OrphanCloseCallback(DispatchPort)
  \/ \E id \in DispatchIds : AddInteraction(id)
  \/ \E id \in DispatchIds : RemoveInteraction(DispatchPort, id)
  \/ RemoveInteractions(DispatchPort)
  \/ RemoveAllInteractions
  \/ \E r \in ClientRequests : Request(DispatchPort, r)

SpecDispatch == Init /\ [][NextDispatch]_vars

\* the requests other clients send while invocations are tossed, each with
\* the port it goes to
TossClientRequests ==
  {pr \in Ports \X ClientRequests :
     \/ pr[1] = 9494 /\ pr[2].body = "x"
     \/ pr[1] = 9393 /\ pr[2].method = "GET" /\ pr[2].headers # {}}

\* the invocations under toss(), with the server they register on, the
\* requests of other clients and the test's own calls on the server
NextToss ==
  \/ \E p \in Ports : StartListen(p)
  \/ \E p \in Ports : ListenCallback(p)
  \/ StopClose(DispatchPort)
  \/ CloseCallback(DispatchPort)
  \/ OrphanCloseCallback(DispatchPort)
  \/ RemoveInteractions(DispatchPort)
  \/ \E pr \in TossClientRequests : Request(pr[1], pr[2])
  \/ \E s \in SpecIds : TossRegister(s)
  \/ \E s \in SpecIds : TossFetch(s)
  \/ \E s \in SpecIds : ServerHandles(s)
  \/ \E s \in SpecIds : ConnectionFails(s)
  \/ \E s \in SpecIds : TossSettle(s)
  \/ \E s \in SpecIds : TossDeregister(s)
  \/ \E s \in SpecIds : TossValidateInteractions(s)
  \/ \E s \in SpecIds : TossValidate(s)

SpecToss == Init /\ [][NextToss]_vars

(* ---------------------------------------------------------------------- *)
(* Claims about request dispatch (checked under SpecDispatch)              *)
(* ---------------------------------------------------------------------- *)

\* the interactions of a registry whose predicate a request satisfies, in
\* registry order
Matching(ints, r) ==
  SelectSeq(ints, LAMBDA id : Matches(Interactions[id].withRequest, r))

\* the response configured on an interaction, as a client would receive it
Configured(id) ==
  LET w == Interactions[id].willRespondWith
  IN  [status |-> w.status,
       headers |-> IF w.headers = None THEN {} ELSE w.headers[1],
       body |-> w.body]

\* the not-found response
NotFoundResponse ==
  [status |-> NotFoundStatus, headers |-> {}, body |-> Some(NotFoundBody)]

\* C1: when a request on a started port matches several interactions of the
\* port's registry, its client receives the response configured on the last
\* of them in insertion order.
C1_LastMatchWins ==
  [][\A r \in ClientRequests :
       LET ms == Matching(Registry(DispatchPort), r)
       IN  (Request(DispatchPort, r) /\ Len(ms) >= 2)
             => lastRes' = Some(Configured(ms[Len(ms)]))]_vars

\* C2: the scan does not stop at a match: after a request that several
\* interactions of the registry match (two, three or more), every one of them
\* has exercised = true.
C2_AllMatchesMarked ==
  [][\A r \in ClientRequests :
       LET ms == Matching(Registry(DispatchPort), r)
       IN  (Request(DispatchPort, r) /\ Len(ms) >= 2)
             => \A k \in 1..Len(ms) : exercised'[ms[k]]]_vars

\* C3: for every interaction I in the registry of a started port, a request
\* on the port that satisfies all of I's declared predicates leaves
\* I.exercised = true.
C3_SatisfiedIsExercised ==
  [][\A r \in ClientRequests : \A id \in Range(Registry(DispatchPort)) :
       LET w == Interactions[id].withRequest
       IN  ( /\ Request(DispatchPort, r)
             /\ w.method = r.method /\ w.path = r.path
             /\ (w.query # None => w.query[1] \subseteq r.query)
             /\ (w.headers # None => w.headers[1] \subseteq r.headers)
             /\ (w.body # None => w.body[1] = r.body) )
           => exercised'[id]]_vars

\* C4: a request on a started port that no interaction of the port's registry
\* matches (an empty registry included) gets exactly the not-found response,
\* status 404 with body 'Interaction Not Found'; a request that some
\* interaction matches never gets it.
C4_NotFoundIffNoMatch ==
  [][\A r \in ClientRequests :
       Request(DispatchPort, r)
         => ( (Matching(Registry(DispatchPort), r) = <<>>)
                <=> (lastRes' = Some(NotFoundResponse)) )]_vars

\* C4 happens: a client got the not-found response from a port whose registry
\* holds interactions, none of which its request matches.
C4_Witness ==
  /\ lastReq # None
  /\ lastRes = Some(NotFoundResponse)
  /\ Listening(DispatchPort)
  /\ Registry(DispatchPort) # <<>>
  /\ Matching(Registry(DispatchPort), lastReq[1].req) = <<>>

(* ---------------------------------------------------------------------- *)
(* Claims about toss() (checked under SpecToss)                            *)
(* ---------------------------------------------------------------------- *)

\* none of the invocation's interactions is in the registry of any port
NoneRegistered(s) ==
  \A id \in Range(SpecInteractions[s]) : \A p \in Ports :
    id \notin Range(Registry(p))

\* every interaction of the invocation whose port the server knows is in the
\* registry of that port
AllRegistered(s) ==
  \A id \in Range(SpecInteractions[s]) :
    Has(Interactions[id].port) => id \in Range(Registry(Interactions[id].port))

\* C5: when toss() of an invocation has finished, whatever its outcome, none
\* of the interactions the invocation registered is in any port's registry.
C5_NoLeakAfterToss ==
  \A s \in SpecIds : outcome[s] # "pending" => NoneRegistered(s)

\* C5 happens: one toss() resolved and another was rejected after its outbound
\* call failed, and interactions of both had been in a registry long enough
\* to be matched.
C5_Witness ==
  /\ outcome["s1"] = "resolved"
  /\ exercised["a1"]
  /\ outcome["s2"] = "UnexercisedInteractionError"
  /\ response["s2"].error
  /\ exercised["b1"]

\* the steps of one toss(), as pairs of pc values
TossSteps ==
  { <<"BUILT", "REGISTERED">>, <<"REGISTERED", "AWAITING">>,
    <<"AWAITING", "EXECUTED">>, <<"EXECUTED", "DEREGISTERED">>,
    <<"DEREGISTERED", "CHECKED">>, <<"DEREGISTERED", "VALIDATED">>,
    <<"CHECKED", "VALIDATED">> }

\* C6: one toss() goes BUILT -> REGISTERED -> (call issued) -> EXECUTED ->
\* DEREGISTERED -> VALIDATED and no other way: its interactions are in the
\* server when the call is issued, the call is issued only then, they leave
\* the server only after the call has settled, and validation runs only
\* after they have left.
C6_TossOrder ==
  /\ [][\A s \in SpecIds :
          pc'[s] # pc[s] =>
            /\ <<pc[s], pc'[s]>> \in TossSteps
            /\ pc'[s] = "REGISTERED" =>
                 flight'[s].state = "none" /\ AllRegistered(s)'
            /\ pc'[s] = "AWAITING" =>
                 /\ AllRegistered(s)
                 /\ flight[s].state = "none" /\ flight'[s].state = "request"
                 /\ mockMap' = mockMap
            /\ pc'[s] = "EXECUTED" =>
                 /\ flight[s].state \in {"response", "error"}
                 /\ mockMap' = mockMap
                 /\ outcome'[s] = "pending"
            /\ pc'[s] = "DEREGISTERED" =>
                 NoneRegistered(s)' /\ outcome'[s] = "pending"
            /\ pc[s] \in {"DEREGISTERED", "CHECKED"} =>
                 NoneRegistered(s) /\ mockMap' = mockMap]_vars
  /\ [](\A s \in SpecIds :
          /\ flight[s].state # "none" => pc[s] \notin {"BUILT", "REGISTERED"}
          /\ outcome[s] # "pending" <=> pc[s] = "VALIDATED")

\* C6 happens: both invocations went through every step, one with a call
\* that was answered and one with a call that failed.
C6_Witness ==
  /\ pc["s1"] = "VALIDATED" /\ flight["s1"].state = "response"
  /\ pc["s2"] = "VALIDATED" /\ flight["s2"].state = "error"

\* C7: the exercised check runs before the response expectations: when an
\* interaction of the invocation has exercised = false, toss() ends with the
\* unexercised-interaction error and validate(response) is not run.
C7_ExercisedCheckFirst ==
  /\ [][\A s \in SpecIds :
          ( /\ pc[s] = "DEREGISTERED" /\ pc'[s] # "DEREGISTERED"
            /\ \E id \in Range(SpecInteractions[s]) : ~exercised[id] )
          => /\ pc'[s] = "VALIDATED"
             /\ outcome'[s] = "UnexercisedInteractionError"]_vars
  /\ [](\A s \in SpecIds :
          (pc[s] = "CHECKED" \/ outcome[s] \in {"resolved", "AssertionError"})
            => \A id \in Range(SpecInteractions[s]) : exercised[id])

\* C7 happens: a toss() whose response would have passed validate ended with
\* the unexercised-interaction error, one of its interactions never matched.
C7_Witness ==
  /\ outcome["s2"] = "UnexercisedInteractionError"
  /\ response["s2"].statusCode = Some(201)
  /\ exercised["b1"]
  /\ ~exercised["b2"]

\* how validate() ends on the error a failed call leaves in this._response
OutcomeOnError(s) ==
  IF \E id \in Range(SpecInteractions[s]) : ~exercised[id]
    THEN "UnexercisedInteractionError"
    ELSE IF SpecExpectStatus[s] = None THEN "resolved" ELSE "AssertionError"

\* C8: a failure of the outbound call does not end toss(): the error becomes
\* this._response, every interaction is deregistered, and the exercised check
\* and validate run against the error.
C8_ErrorDoesNotAbort ==
  /\ [][\A s \in SpecIds :
          (pc[s] = "AWAITING" /\ pc'[s] # "AWAITING" /\ flight[s].state = "error")
          => /\ pc'[s] = "EXECUTED"
             /\ response'[s].error
             /\ outcome'[s] = "pending"]_vars
  /\ [](\A s \in SpecIds :
          (flight[s].state = "error" /\ outcome[s] # "pending")
            => /\ response[s].error
               /\ NoneRegistered(s)
               /\ outcome[s] = OutcomeOnError(s))

\* C8 happens: the call of a toss() failed, its interaction had been matched
\* by another client, and validate ran against the error and rejected it.
C8_Witness ==
  /\ flight["s1"].state = "error"
  /\ response["s1"].error
  /\ exercised["a1"]
  /\ outcome["s1"] = "AssertionError"

(* ---------------------------------------------------------------------- *)
(* Claims about start and stop (checked under SpecDispatch)                *)
(* ---------------------------------------------------------------------- *)

\* a call of Server.start(p), whichever branch it takes
StartCall(p) == StartNoop(p) \/ StartListen(p) \/ StartBindError(p)

\* C9: start(p) on a port that is running resolves at once and changes
\* nothing: no second server is bound or fails to bind, the port's entry, its
\* registry and the exercised flags are as before; a running port that is not
\* being stopped has its one listener.
C9_StartIdempotent ==
  /\ [][\A p \in Ports :
          (Has(p) /\ Entry(p).running /\ StartCall(p))
          => /\ lastCall' = Some([op |-> "start", port |-> p])
             /\ mockMap' = mockMap
             /\ binding' = binding
             /\ crashed' = crashed
             /\ exercised' = exercised
             /\ Listeners(p)' = Listeners(p)]_vars
  /\ [](\A p \in Ports :
          (Has(p) /\ Entry(p).running /\ Entry(p).server.closeCbs = 0)
            => Listeners(p) = 1 /\ ~binding[p])

\* C9 happens: start found the port running, with interactions registered and
\* exercised, and the port listens.
C9_Witness ==
  /\ lastCall = Some([op |-> "start", port |-> DispatchPort])
  /\ Listeners(DispatchPort) = 1
  /\ \E id \in Range(Registry(DispatchPort)) : exercised[id]
  /\ ~crashed

\* C10 as claimed: when start(p) resolves on a port that stop(p) had stopped,
\* the registry of p holds exactly the interactions it held before.
C10_RegistryKeptAcrossRestart ==
  [][\A p \in Ports :
       (ListenCallback(p) /\ Has(p)) => Registry(p)' = Registry(p)]_vars

\* C10 amended: stop(p) keeps the registry of p, from the call until after
\* its callback; the start(p) that follows replaces the entry of p, and the
\* registry of p is empty when that start resolves.
C10_StopKeepsStartResets ==
  [][\A p \in Ports :
       /\ (StopNoop(p) \/ StopClose(p) \/ CloseCallback(p))
            => Registry(p)' = Registry(p) /\ exercised' = exercised
       /\ ListenCallback(p)
            => Registry(p)' = <<>> /\ Entry(p)'.running]_vars

\* C10 happens: the port is stopped, its registry still holds interactions,
\* and the start that will replace the entry is under way.
C10_Witness ==
  /\ Has(DispatchPort)
  /\ ~Entry(DispatchPort).running
  /\ Entry(DispatchPort).server.closeCbs = 0
  /\ Registry(DispatchPort) # <<>>
  /\ binding[DispatchPort]

(* ---------------------------------------------------------------------- *)
(* Claims about the server's interface (SpecServer; C19: SpecDispatch)     *)
(* ---------------------------------------------------------------------- *)

\* a call of Server.stop(p), whichever branch it takes
StopCall(p) == StopNoop(p) \/ StopClose(p)

\* the running flag of a port (a port without entry has none)
Running(p) == Has(p) /\ Entry(p).running

\* C11: stop(p) on a port that was never started, or on one that is stopped,
\* resolves at once and changes nothing: the entry, the running flag, the
\* listener and the registry of every port are as before.
C11_StopNoopChangesNothing ==
  [][\A p \in Ports :
       (StopCall(p) /\ (~Has(p) \/ ~Entry(p).running))
       => /\ lastCall' = Some([op |-> "stop", port |-> p])
          /\ mockMap' = mockMap
          /\ binding' = binding
          /\ orphans' = orphans
          /\ crashed' = crashed
          /\ \A q \in Ports :
               /\ Running(q)' = Running(q)
               /\ Listeners(q)' = Listeners(q)
               /\ Registry(q)' = Registry(q)]_vars

\* C11 happens: stop was called on a port that was never started while another
\* port runs with interactions registered.
C11_Witness ==
  /\ lastCall = Some([op |-> "stop", port |-> 9494])
  /\ ~Has(9494) /\ ~binding[9494]
  /\ Running(9393) /\ Listeners(9393) = 1
  /\ Registry(9393) # <<>>
  /\ ~crashed

\* the entry, the pending listen and the registry of every port but p are as
\* before
OthersUnchanged(p) ==
  \A q \in Ports \ {p} :
    /\ mockMap'[q] = mockMap[q]
    /\ binding'[q] = binding[q]
    /\ orphans'[q] = orphans[q]

\* C12: stop(p) on a port that runs and listens closes the listener of p at
\* once and sets the running flag of p to false when it resolves; the
\* registry of p is the same after either step, no other port changes, and a
\* stopped port has no listener.
C12_StopClosesOnlyThePort ==
  /\ [][\A p \in Ports :
          /\ (StopCall(p) /\ Running(p) /\ Listening(p))
             => /\ Listeners(p)' = 0
                /\ Entry(p)'.server.closeCbs = Entry(p).server.closeCbs + 1
                /\ Registry(p)' = Registry(p)
                /\ binding'[p] = binding[p] /\ crashed' = crashed
                /\ OthersUnchanged(p)
          /\ CloseCallback(p)
             => /\ ~Running(p)'
                /\ Listeners(p)' = 0
                /\ Registry(p)' = Registry(p)
                /\ binding'[p] = binding[p] /\ crashed' = crashed
                /\ OthersUnchanged(p)]_vars
  /\ [](\A p \in Ports : (Has(p) /\ ~Entry(p).running) => Listeners(p) = 0)

\* C12 happens: stop has resolved on a port that holds interactions, and
\* another port still runs with its own.
C12_Witness ==
  /\ lastCall = Some([op |-> "stop", port |-> 9393])
  /\ Has(9393) /\ ~Entry(9393).running /\ PendingClose(9393) = 0
  /\ Listeners(9393) = 0
  /\ Registry(9393) # <<>>
  /\ Running(9494) /\ Listeners(9494) = 1 /\ Registry(9494) # <<>>

\* C13: addInteraction(id, interaction) puts id into the registry of
\* interaction.port, after the ids it holds (in place when it holds id), and
\* into no other registry; when the map has no entry for interaction.port the
\* call changes nothing and raises nothing.  No running flag or listener
\* changes either way.
C13_AddInteractionOwnPortOrDropped ==
  [][\A id \in MockIds :
       AddInteraction(id) =>
         LET q == Interactions[id].port
         IN  /\ crashed' = crashed /\ binding' = binding
             /\ OthersUnchanged(q)
             /\ IF Has(q)
                  THEN /\ Registry(q)' =
                            IF \E k \in 1..Len(Registry(q)) : Registry(q)[k] = id
                              THEN Registry(q)
                              ELSE Registry(q) \o <<id>>
                       /\ Entry(q)'.running = Entry(q).running
                       /\ Entry(q)'.server = Entry(q).server
                  ELSE mockMap' = mockMap]_vars

\* C13 happens: two interactions were added to the registry of their port,
\* in order, while the other port, whose start has not resolved, has no
\* registry to take one.
C13_Witness ==
  /\ Registry(9393) = <<"m2", "m1">>
  /\ ~Has(9494) /\ binding[9494]
  /\ ~crashed

\* C14: removeAllInteractions() leaves the registry of every port empty; the
\* ports the map holds, their running flags and their listeners are as
\* before, and no start or stop is set off.
C14_RemoveAllKeepsPorts ==
  [][RemoveAllInteractions =>
       /\ \A p \in Ports :
            /\ Registry(p)' = <<>>
            /\ Has(p)' = Has(p)
            /\ Running(p)' = Running(p)
            /\ Listeners(p)' = Listeners(p)
            /\ Has(p) => Entry(p)'.server = Entry(p).server
       /\ binding' = binding /\ orphans' = orphans
       /\ crashed' = crashed /\ lastCall' = lastCall]_vars

\* C14 happens: every registry is empty, on a port that runs and on a port
\* that is stopped, after both were started and one was stopped.
C14_Witness ==
  /\ Running(9393) /\ Listeners(9393) = 1
  /\ Has(9494) /\ ~Entry(9494).running /\ Listeners(9494) = 0
  /\ lastCall = Some([op |-> "stop", port |-> 9494])
  /\ \A p \in Ports : Registry(p) = <<>>
  /\ ~crashed

\* C16: a start(p) that cannot bind p fails as that call only: the process
\* goes on, p gets no running state from the call, and the entry and the
\* registry of every other port are as before.
C16_BindErrorOnlyFailsTheCall ==
  [][\A p \in Ports :
       StartBindError(p) =>
         /\ ~crashed'
         /\ mockMap'[p] = mockMap[p]
         /\ OthersUnchanged(p)]_vars

\* no call of start or stop on p is still to resolve
NothingPending(p) == ~binding[p] /\ PendingClose(p) = 0 /\ ~crashed

\* C19: when the call of start or stop issued last is start(p) and every call
\* on p has resolved, p runs and listens, whether or not the calls before it
\* had resolved when it was issued.
C19_LastStartWins ==
  \A p \in Ports :
    (lastCall = Some([op |-> "start", port |-> p]) /\ NothingPending(p))
      => Running(p) /\ Listening(p)

(* ---------------------------------------------------------------------- *)
(* Claims about invocations (checked under SpecToss)                       *)
(* ---------------------------------------------------------------------- *)

\* the request the mock server would see if the call went out with the verb
\* the builder stored in this._request.method
ConfiguredRequest(s) == [FetchRequest(s) EXCEPT !.method = SpecRequest[s].method]

\* C15: the outbound call goes out with the HTTP method configured on the
\* invocation (a spec built with put(url) issues a PUT): the response the
\* invocation's call gets from the mock server is the one the handler gives
\* to a request with the configured method.
C15_ConfiguredMethodDispatched ==
  [][\A s \in SpecIds :
       ServerHandles(s) =>
         flight'[s].res =
           Some(Observed(Handle(Registry(SpecRequest[s].port),
                                ConfiguredRequest(s))))]_vars

\* a step in which the handler of the mock server runs on a request
Dispatch ==
  \/ \E pr \in TossClientRequests : Request(pr[1], pr[2])
  \/ \E s \in SpecIds : ServerHandles(s)

\* C17: exercised starts false and never goes back to false, whatever runs
\* (start, stop, registration and deregistration of other interactions,
\* requests that do not match, another invocation's toss); it becomes true
\* only in a dispatch on the interaction's port while the interaction is in
\* that port's registry.  An interaction that is registered is in the
\* registry of the port its port field names and in no other, once.
C17_ExercisedMonotonicOnePort ==
  /\ \A id \in InteractionIds : ~exercised[id]
  /\ [][\A id \in InteractionIds :
          /\ exercised[id] => exercised'[id]
          /\ (~exercised[id] /\ exercised'[id])
               => /\ Dispatch
                  /\ Listening(Interactions[id].port)
                  /\ \E k \in 1..Len(Registry(Interactions[id].port)) :
                       Registry(Interactions[id].port)[k] = id]_vars
  /\ [](\A p \in Ports :
          /\ \A k \in 1..Len(Registry(p)) :
               Interactions[Registry(p)[k]].port = p
          /\ \A j, k \in 1..Len(Registry(p)) :
               Registry(p)[j] = Registry(p)[k] => j = k)

\* C17 happens: an interaction is registered and exercised while its
\* invocation waits, after another invocation sharing the port was tossed to
\* its end with a call that does not match it, and after a request on the
\* other port.
C17_Witness ==
  /\ pc["s1"] = "AWAITING"
  /\ Registry(9393) = <<"a1">>
  /\ exercised["a1"]
  /\ pc["s2"] = "VALIDATED" /\ flight["s2"].state = "response"
  /\ exercised["b1"] /\ exercised["b2"]
  /\ lastReq # None /\ lastReq[1].port = 9494

\* id is in the registry of port p
InRegistry(id, p) == \E k \in 1..Len(Registry(p)) : Registry(p)[k] = id

\* C18: the deregistration step of an invocation takes out its own
\* interactions only: every interaction of another invocation is in the same
\* registries after the step as before, with the same exercised flag.  An
\* interaction of an invocation leaves a registry only in that invocation's
\* own deregistration step, or when the test clears or restarts the port; so
\* what an invocation registered is there when its call is dispatched, however
\* the two toss() calls interleave.
C18_CleanupTakesOwnOnly ==
  /\ [][\A a \in SpecIds :
          TossDeregister(a) =>
            /\ exercised' = exercised
            /\ \A b \in SpecIds \ {a} : \A k \in 1..Len(SpecInteractions[b]) :
                 \A p \in Ports :
                   InRegistry(SpecInteractions[b][k], p)'
                     <=> InRegistry(SpecInteractions[b][k], p)]_vars
  /\ [][\A b \in SpecIds : \A k \in 1..Len(SpecInteractions[b]) :
          \A p \in Ports :
            ( /\ InRegistry(SpecInteractions[b][k], p)
              /\ ~InRegistry(SpecInteractions[b][k], p)' )
            => \/ pc[b] = "EXECUTED" /\ pc'[b] = "DEREGISTERED"
               \/ RemoveInteractions(p)
               \/ ListenCallback(p)]_vars

\* C18 happens: one invocation has just deregistered while the other, which
\* registered on the same port before, still waits for its call to be
\* dispatched, and the other's interactions are in their registries.
C18_Witness ==
  /\ pc["s1"] = "DEREGISTERED"
  /\ exercised["a1"]
  /\ pc["s2"] = "AWAITING" /\ flight["s2"].state = "request"
  /\ Registry(9393) = <<"b1">>
  /\ Registry(9494) = <<"b2">>

\* request r satisfies every predicate interaction id declares
Satisfies(id, r) ==
  LET w == Interactions[id].withRequest
  IN  /\ w.method = r.method /\ w.path = r.path
      /\ (w.query # None => w.query[1] \subseteq r.query)
      /\ (w.headers # None => w.headers[1] \subseteq r.headers)
      /\ (w.body # None => w.body[1] = r.body)

\* this step dispatches, on port p, a request that satisfies id: the request
\* of another client or the call of an invocation
SatisfyingDispatch(id, p) ==
  \/ /\ flight' = flight
     /\ lastReq' # None
     /\ lastReq'[1].port = p
     /\ Satisfies(id, lastReq'[1].req)
  \/ \E t \in SpecIds :
       /\ flight[t].state = "request" /\ flight'[t].state = "response"
       /\ SpecRequest[t].port = p
       /\ Satisfies(id, FetchRequest(t))

\* C20: an invocation tossed once passes the exercised check only if every
\* one of its interactions was matched inside its window: no interaction is
\* exercised before the registration step; exercised becomes true only in a
\* step that dispatches a satisfying request on the interaction's own port
\* while the invocation is between registration and deregistration and the
\* interaction is in that port's registry; and the check is passed only with
\* every interaction exercised.
C20_CheckNeedsMatchInWindow ==
  /\ [][\A s \in SpecIds : \A k \in 1..Len(SpecInteractions[s]) :
          LET id == SpecInteractions[s][k]
              p == Interactions[id].port
          IN  (~exercised[id] /\ exercised'[id])
                => /\ pc[s] \in {"REGISTERED", "AWAITING", "EXECUTED"}
                   /\ pc'[s] = pc[s]
                   /\ InRegistry(id, p) /\ Listening(p)
                   /\ SatisfyingDispatch(id, p)]_vars
  /\ [](\A s \in SpecIds : \A k \in 1..Len(SpecInteractions[s]) :
          /\ pc[s] = "BUILT" => ~exercised[SpecInteractions[s][k]]
          /\ (pc[s] = "CHECKED" \/ outcome[s] \in {"resolved", "AssertionError"})
               => exercised[SpecInteractions[s][k]])

\* C20 happens: one invocation passed the check with interactions on two
\* ports, each matched on its own port; the other failed it although a
\* request satisfying its interaction was dispatched on the right port, only
\* not while the interaction was in the registry.
C20_Witness ==
  /\ outcome["s2"] = "resolved"
  /\ exercised["b1"] /\ exercised["b2"]
  /\ outcome["s1"] = "UnexercisedInteractionError"
  /\ ~exercised["a1"]
  /\ flight["s1"].state = "response"
  /\ lastReq # None /\ lastReq[1].port = 9393
  /\ Satisfies("a1", lastReq[1].req)

====
